---- MODULE Spec2Model ----
(***************************************************************************)
(* Model of the OpenSky ETL job: src/a.DB_setup.py (the schema) and        *)
(* src/b.extract.py (log_etl_run, fetch_and_append_data and the driver     *)
(* loop).  The SQLite database is modelled as a committed image `db` and   *)
(* the image `tx` seen through the cycle's open connection: statements     *)
(* change tx, commit copies tx to db, closing the connection discards      *)
(* whatever was not committed.                                             *)
(***************************************************************************)
EXTENDS Integers, Sequences, FiniteSets, TLC

\* ---------------------------------------------------------------- bounds
\* num_cycles (144 in the source) is cut down to a checkable number.
NumCycles == 2
\* Largest number of raw state vectors in one API response.
MaxStates == 2

\* ------------------------------------------------------ program constants
\* A raw state vector needs this many positional fields to be kept.
MinFields == 17

\* ------------------------------------------------------------ value sets
\* Optional (nullable) values: None is SQL NULL / Python None.
None == {}
Some(v) == {v}

\* A raw state vector: n is the number of positional fields of the array,
\* callsign is JSON null, a string (a sequence of characters) or a JSON
\* number (a truthy value that has no strip()).
Raw(n, icao24, last_contact, kind, chars) ==
    [n |-> n, icao24 |-> icao24, last_contact |-> last_contact,
     callsign |-> [kind |-> kind, chars |-> chars]]

\* The state vectors a response is made of: two vectors with the same key
\* and different callsigns, vectors with other keys, a null, an empty and a
\* blank callsign, a vector one field short, and one whose callsign is not
\* a string.
RawStates ==
    { Raw(MinFields, "a", 1, "str", <<"U", " ">>),
      Raw(MinFields, "a", 1, "str", <<" ">>),
      Raw(MinFields, "a", 2, "null", <<>>),
      Raw(MinFields, "b", 1, "str", <<>>),
      Raw(MinFields - 1, "b", 2, "str", <<" ", "U">>),
      Raw(MinFields, "b", 2, "num", <<>>) }

SeqsUpTo(S, k) == UNION { [1..m -> S] : m \in 0..k }

\* ------------------------------------------------------- pure functions
\* str.strip() on a sequence of characters.
RECURSIVE LStrip(_)
LStrip(s) == IF s # <<>> /\ Head(s) = " " THEN LStrip(Tail(s)) ELSE s

RECURSIVE RStrip(_)
RStrip(s) ==
    IF s # <<>> /\ s[Len(s)] = " " THEN RStrip(SubSeq(s, 1, Len(s) - 1)) ELSE s

Strip(s) == RStrip(LStrip(s))

\* `state[1]` is truthy: a non-empty string or a (non-zero) number.
Truthy(cs) == cs.kind = "num" \/ (cs.kind = "str" /\ cs.chars # <<>>)

\* `state[1].strip()` raises AttributeError when state[1] is a number.
StripRaises(state) == state.n >= MinFields /\ state.callsign.kind = "num"

\* The tuple built at lines 64-69 (the key, the callsign and fetch_time;
\* the other fields are copied unchanged and are left out).
Record(state, fetch_time) ==
    [icao24 |-> state.icao24,
     callsign |-> IF Truthy(state.callsign)
                  THEN Some(Strip(state.callsign.chars)) ELSE None,
     last_contact |-> state.last_contact,
     fetch_time |-> fetch_time]

\* Variant of the loop: the length test is strict.
RECURSIVE NormalizeStrict(_, _)
NormalizeStrict(states, fetch_time) ==
    IF states = <<>> THEN <<>>
    ELSE IF Head(states).n > MinFields
         THEN <<Record(Head(states), fetch_time)>>
                  \o NormalizeStrict(Tail(states), fetch_time)
         ELSE NormalizeStrict(Tail(states), fetch_time)

\* The validation loop of lines 62-70 when no tuple raises.
RECURSIVE Normalize(_, _)
Normalize(states, fetch_time) ==
    IF states = <<>> THEN <<>>
    ELSE IF Head(states).n >= MinFields
         THEN <<Record(Head(states), fetch_time)>>
                  \o Normalize(Tail(states), fetch_time)
         ELSE Normalize(Tail(states), fetch_time)

NormalizeRaises(states) == \E j \in 1..Len(states) : StripRaises(states[j])

\* PRIMARY KEY (icao24, last_contact) of opensky_data.
SameKey(r, s) == r.icao24 = s.icao24 /\ r.last_contact = s.last_contact

\* Variants of the insert: a plain append to a table without the primary
\* key, and INSERT OR REPLACE.
InsertUnconstrained(store, r) == store \cup {r}

InsertOrReplace(store, r) ==
    { s \in store : ~SameKey(r, s) } \cup {r}

\* One INSERT OR IGNORE INTO opensky_data.
InsertOrIgnore(store, r) ==
    IF \E s \in store : SameKey(r, s) THEN store ELSE store \cup {r}

\* Variant of the count: the test on the key inverted.
ChangesInverted(store, r) == IF \E s \in store : SameKey(r, s) THEN 1 ELSE 0

\* Variant of the count: one per executed statement (the batch size).
ChangesPerStatement(store, r) == 1

\* sqlite3_changes() of one INSERT OR IGNORE: 1 if a row was added.
Changes(store, r) == IF \E s \in store : SameKey(r, s) THEN 0 ELSE 1

\* cursor.executemany(insert_query, records): the statement runs once per
\* record, in order; cursor.rowcount sums the changes.
RECURSIVE ExecuteMany(_, _)
ExecuteMany(store, records) ==
    IF records = <<>> THEN [store |-> store, rowcount |-> 0]
    ELSE LET rest == ExecuteMany(InsertOrIgnore(store, Head(records)),
                                 Tail(records))
         IN  [store |-> rest.store,
              rowcount |-> Changes(store, Head(records)) + rest.rowcount]

\* Outcomes of a statement and of conn.commit().  A failed statement leaves
\* the transaction as it was.  A failed commit either leaves the transaction
\* open ("busy": database is locked) or has rolled it back ("rollback":
\* disk full, I/O error).
StmtOutcomes == {"ok", "error"}
CommitOutcomes == {"ok", "busy", "rollback"}

\* conn.commit()
Commit(t, d, com) ==
    [tx |-> IF com = "rollback" THEN d ELSE t,
     db |-> IF com = "ok" THEN t ELSE d,
     raised |-> com # "ok"]

\* run_id INTEGER PRIMARY KEY AUTOINCREMENT
NextRunId(t) == t.seq + 1

\* Variants of the UPDATE: error_message left as it was; records_processed
\* always written as 0; no WHERE clause.
UpdateLogKeepsMessage(log, now_time, records, status, error_msg, rid) ==
    { IF r.run_id = rid
      THEN [r EXCEPT !.end_time = Some(now_time),
                     !.records_processed = Some(records),
                     !.status = status]
      ELSE r : r \in log }

UpdateLogZeroRecords(log, now_time, records, status, error_msg, rid) ==
    { IF r.run_id = rid
      THEN [r EXCEPT !.end_time = Some(now_time),
                     !.records_processed = Some(0),
                     !.status = status,
                     !.error_message = error_msg]
      ELSE r : r \in log }

UpdateLogEveryRow(log, now_time, records, status, error_msg, rid) ==
    { [r EXCEPT !.end_time = Some(now_time),
                !.records_processed = Some(records),
                !.status = status,
                !.error_message = error_msg] : r \in log }

\* The UPDATE of lines 19-23.
UpdateLog(log, now_time, records, status, error_msg, rid) ==
    { IF r.run_id = rid
      THEN [r EXCEPT !.end_time = Some(now_time),
                     !.records_processed = Some(records),
                     !.status = status,
                     !.error_message = error_msg]
      ELSE r : r \in log }

\* The INSERT of lines 26-28.
InsertLog(log, now_time, status, rid) ==
    log \cup { [run_id |-> rid, start_time |-> now_time, end_time |-> None,
                records_processed |-> None, status |-> status,
                error_message |-> None] }

\* Variant of log_etl_run: the INSERT branch commits before it returns.
LogEtlRunCommitsInsert(t, d, status, records, error_msg, rid, now_time, stmt, com) ==
    IF rid # 0
    THEN IF stmt = "error"
         THEN [tx |-> t, db |-> d, raised |-> TRUE,
               msg |-> "database is locked", ret |-> 0]
         ELSE LET u == [t EXCEPT !.log = UpdateLog(t.log, now_time, records,
                                                   status, error_msg, rid)]
                  c == Commit(u, d, com)
              IN  [tx |-> c.tx, db |-> c.db, raised |-> c.raised,
                   msg |-> "database is locked", ret |-> 0]
    ELSE IF stmt = "error"
         THEN [tx |-> t, db |-> d, raised |-> TRUE,
               msg |-> "database is locked", ret |-> 0]
         ELSE LET u == [t EXCEPT !.log = InsertLog(t.log, now_time, status,
                                                   NextRunId(t)),
                                 !.seq = NextRunId(t)]
              IN  [tx |-> u, db |-> u, raised |-> FALSE, msg |-> "",
                   ret |-> NextRunId(t)]

\* log_etl_run(conn, status, records, error_msg, run_id): t, d are the
\* images before the call, stmt and com the outcomes of its statement and
\* of its commit.  Returns the images after it, whether it raised, the
\* message of the exception and the value returned.
LogEtlRun(t, d, status, records, error_msg, rid, now_time, stmt, com) ==
    IF rid # 0
    THEN IF stmt = "error"
         THEN [tx |-> t, db |-> d, raised |-> TRUE, msg |-> "database is locked",
               ret |-> 0]
         ELSE LET u == [t EXCEPT !.log = UpdateLog(t.log, now_time, records,
                                                   status, error_msg, rid)]
                  c == Commit(u, d, com)
              IN  [tx |-> c.tx, db |-> c.db, raised |-> c.raised,
                   msg |-> "database is locked", ret |-> 0]
    ELSE IF stmt = "error"
         THEN [tx |-> t, db |-> d, raised |-> TRUE, msg |-> "database is locked",
               ret |-> 0]
         ELSE [tx |-> [t EXCEPT !.log = InsertLog(t.log, now_time, status,
                                                  NextRunId(t)),
                                !.seq = NextRunId(t)],
               db |-> d, raised |-> FALSE, msg |-> "",
               ret |-> NextRunId(t)]

\* Variant of the cleanup: the connection is left open.
CloseSkipped(n, c) == n

\* conn.close() in the finally block: the connection count after it.
Close(n, c) == IF c THEN n - 1 ELSE n

\* --------------------------------------------------------------- state
VARIABLES
    cycle,     \* i + 1 of the driver loop: cycles started so far
    pc,        \* position of the driver / of fetch_and_append_data
    conn,      \* the local `conn`: TRUE once sqlite3.connect returned
    open,      \* number of connections currently open
    run_id,    \* the local `run_id`; 0 stands for None
    rowcount,  \* cursor.rowcount after executemany
    error,     \* the exception in flight: None or Some(message)
    db,        \* committed database image
    tx,        \* database image seen through the open connection
    sleeps,    \* number of time.sleep calls made by the driver
    fetched,   \* history: outcome of this cycle's HTTP request
    store0,    \* history: committed observation rows when the cycle began
    updates,   \* history: UPDATEs applied to this cycle's run-log row
    exit,      \* how the try statement is left: "normal", "return", "raise"
    batch,     \* history: len(records_to_insert) of this cycle
    log0,      \* history: committed run-log rows when the cycle began
    cause,     \* history: <<step, message>> of the exception the handler got
    load_batch,  \* records_to_insert of the load step run on its own
    once,      \* history: the store after that batch was loaded once
    response   \* history: the `states` of this cycle's response

\* The variables used only when the load step is run on its own.
lvars == <<load_batch, once>>

vars == <<cycle, pc, conn, open, run_id, rowcount, error, db, tx, sleeps,
          fetched, store0, updates, exit, batch, log0, cause, lvars,
          response>>

\* The database after setup_database: both tables exist and are empty.
EmptyDb == [store |-> {}, log |-> {}, seq |-> 0]

\* datetime.now() / datetime.utcnow(): one reading per cycle is enough to
\* tell the cycles apart.
Now == cycle

Init ==
    /\ cycle = 0
    /\ pc = "loop"
    /\ conn = FALSE
    /\ open = 0
    /\ run_id = 0
    /\ rowcount = 0
    /\ error = None
    /\ db = EmptyDb
    /\ tx = EmptyDb
    /\ sleeps = 0
    /\ fetched = "none"
    /\ store0 = {}
    /\ updates = 0
    /\ exit = "none"
    /\ batch = 0
    /\ log0 = {}
    /\ cause = <<"none", "">>
    /\ load_batch = <<>>
    /\ once = {}
    /\ response = <<>>

\* Number of rows an UPDATE ... WHERE run_id = rid touches.
Touched(t, rid) == Cardinality({ r \in t.log : r.run_id = rid })

\* An exception raised at `site` inside the try block: control goes to the
\* handler of line 92 with str(e) = msg.
Raise(site, msg) ==
    /\ error' = Some(msg)
    /\ cause' = <<site, msg>>
    /\ pc' = "except"

\* The step ends without an exception and control goes to p.
Goto(p) ==
    /\ pc' = p
    /\ UNCHANGED <<error, cause>>

\* ------------------------------------------------------------- actions
\* for i in range(num_cycles): fetch_and_append_data() -- lines 110-112
\* and the locals of lines 37-38.
StartCycle ==
    /\ pc = "loop"
    /\ UNCHANGED lvars
    /\ response' = <<>>
    /\ cycle < NumCycles
    /\ cycle' = cycle + 1
    /\ pc' = "connect"
    /\ conn' = FALSE
    /\ run_id' = 0
    /\ rowcount' = 0
    /\ error' = None
    /\ fetched' = "none"
    /\ store0' = db.store
    /\ updates' = 0
    /\ exit' = "none"
    /\ batch' = 0
    /\ log0' = db.log
    /\ cause' = <<"none", "">>
    /\ UNCHANGED <<open, db, tx, sleeps>>

\* conn = sqlite3.connect(DB_NAME) -- line 41
Connect ==
    /\ pc = "connect"
    /\ UNCHANGED <<lvars, response>>
    /\ \E ok \in BOOLEAN :
          IF ok
          THEN /\ conn' = TRUE
               /\ open' = open + 1
               /\ tx' = db
               /\ Goto("begin")
          ELSE /\ Raise("connect", "unable to open database file")
               /\ UNCHANGED <<conn, open, tx>>
    /\ UNCHANGED <<cycle, run_id, rowcount, db, sleeps, fetched, store0,
                   updates, exit, batch, log0>>

\* run_id = log_etl_run(conn, status='Running') -- line 43
BeginRun ==
    /\ pc = "begin"
    /\ UNCHANGED <<lvars, response>>
    /\ \E stmt \in StmtOutcomes :
          LET r == LogEtlRun(tx, db, "Running", 0, None, 0, Now, stmt, "ok")
          IN  /\ tx' = r.tx
              /\ db' = r.db
              /\ IF r.raised
                 THEN /\ Raise("begin_run", r.msg)
                      /\ UNCHANGED run_id
                 ELSE /\ run_id' = r.ret
                      /\ Goto("fetch")
    /\ UNCHANGED <<cycle, conn, open, rowcount, sleeps, fetched, store0,
                   updates, exit, batch, log0>>

\* requests.get / raise_for_status raise -- lines 47-48
FetchFails ==
    /\ pc = "fetch"
    /\ UNCHANGED <<lvars, response>>
    /\ fetched' = "failed"
    /\ Raise("fetch", "request failed")
    /\ UNCHANGED <<cycle, conn, open, run_id, rowcount, db, tx, sleeps,
                   store0, updates, exit, batch, log0>>

\* response.json() raises, or the body is not a JSON object -- lines 50-51
ParseFails ==
    /\ pc = "fetch"
    /\ UNCHANGED <<lvars, response>>
    /\ fetched' = "ok"
    /\ Raise("parse", "invalid JSON")
    /\ UNCHANGED <<cycle, conn, open, run_id, rowcount, db, tx, sleeps,
                   store0, updates, exit, batch, log0>>

\* `states` is missing, null or empty -- lines 50-54
FetchEmpty ==
    /\ pc = "fetch"
    /\ UNCHANGED <<lvars, response>>
    /\ fetched' = "empty"
    /\ Goto("empty")
    /\ UNCHANGED <<cycle, conn, open, run_id, rowcount, db, tx, sleeps,
                   store0, updates, exit, batch, log0>>

\* A response with at least one state vector: normalization and the bulk
\* insert -- lines 50-81.  k is the number of records executemany gets
\* through before it raises (all of them when it does not raise).
FetchAndLoad ==
    /\ pc = "fetch"
    /\ UNCHANGED lvars
    /\ fetched' = "ok"
    /\ \E states \in SeqsUpTo(RawStates, MaxStates) \ {<<>>} :
       /\ response' = states
       /\ IF NormalizeRaises(states)
          THEN /\ Raise("normalize", "no attribute strip")
               /\ UNCHANGED <<tx, rowcount, batch>>
          ELSE LET records_to_insert == Normalize(states, Now)
               IN  /\ batch' = Len(records_to_insert)
                   /\ IF records_to_insert = <<>>
                      THEN /\ Goto("novalid")
                           /\ UNCHANGED <<tx, rowcount>>
                      ELSE \E k \in 0..Len(records_to_insert) :
                             LET e == ExecuteMany(tx.store,
                                         SubSeq(records_to_insert, 1, k))
                             IN  /\ tx' = [tx EXCEPT !.store = e.store]
                                 /\ rowcount' = e.rowcount
                                 /\ IF k < Len(records_to_insert)
                                    THEN Raise("executemany",
                                               "error binding parameter")
                                    ELSE Goto("commit")
    /\ UNCHANGED <<cycle, conn, open, run_id, db, sleeps, store0, updates,
                   exit, log0>>

\* conn.commit() -- line 82
CommitLoad ==
    /\ pc = "commit"
    /\ UNCHANGED <<lvars, response>>
    /\ \E com \in CommitOutcomes :
          LET c == Commit(tx, db, com)
          IN  /\ tx' = c.tx
              /\ db' = c.db
              /\ IF c.raised
                 THEN Raise("commit", "database is locked")
                 ELSE Goto("endrun")
    /\ UNCHANGED <<cycle, conn, open, run_id, rowcount, sleeps, fetched,
                   store0, updates, exit, batch, log0>>

\* log_etl_run(conn, status='Success', records=..., run_id=run_id) called
\* from position `at`; on success the try block is left through `how`.
EndRun(at, records, how) ==
    /\ pc = at
    /\ UNCHANGED <<lvars, response>>
    /\ \E stmt \in StmtOutcomes, com \in CommitOutcomes :
          LET r == LogEtlRun(tx, db, "Success", records, None, run_id, Now,
                             stmt, com)
          IN  /\ tx' = r.tx
              /\ db' = r.db
              /\ updates' = IF stmt = "ok"
                            THEN updates + Touched(tx, run_id) ELSE updates
              /\ IF r.raised
                 THEN /\ Raise("end_run", r.msg)
                      /\ UNCHANGED exit
                 ELSE /\ Goto("finally")
                      /\ exit' = how
    /\ UNCHANGED <<cycle, conn, open, run_id, rowcount, sleeps, fetched,
                   store0, batch, log0>>

\* lines 84-87
EndRunLoaded == EndRun("endrun", rowcount, "normal")

\* lines 55-56: the zero-record shortcut, left by `return`
EndRunEmpty == EndRun("empty", 0, "return")

\* lines 89-90: no tuple was long enough
EndRunNoValid == EndRun("novalid", 0, "normal")

\* except Exception as e -- lines 92-97.  An exception raised by the
\* log_etl_run call of the handler leaves the function.
Except ==
    /\ pc = "except"
    /\ UNCHANGED <<lvars, response>>
    /\ pc' = "finally"
    /\ IF conn /\ run_id # 0
       THEN \E stmt \in StmtOutcomes, com \in CommitOutcomes :
              LET r == LogEtlRun(tx, db, "Failure", 0, error, run_id, Now,
                                 stmt, com)
              IN  /\ tx' = r.tx
                  /\ db' = r.db
                  /\ updates' = IF stmt = "ok"
                                THEN updates + Touched(tx, run_id)
                                ELSE updates
                  /\ IF r.raised
                     THEN /\ error' = Some(r.msg)
                          /\ exit' = "raise"
                     ELSE /\ error' = None
                          /\ exit' = "normal"
       ELSE /\ error' = None
            /\ exit' = "normal"
            /\ UNCHANGED <<tx, db, updates>>
    /\ UNCHANGED <<cycle, conn, open, run_id, rowcount, sleeps, fetched,
                   store0, batch, log0, cause>>

\* finally: if conn: conn.close() -- lines 99-101.  What the connection
\* had not committed is gone.  Then the function returns, or the exception
\* of the handler reaches the driver, which has no handler.
Finally ==
    /\ pc = "finally"
    /\ UNCHANGED <<lvars, response>>
    /\ open' = Close(open, conn)
    /\ tx' = db
    /\ pc' = IF exit = "raise" THEN "crashed" ELSE "returned"
    /\ UNCHANGED <<cycle, conn, run_id, rowcount, error, db, sleeps, fetched,
                   store0, updates, exit, batch, log0, cause>>

\* if i < num_cycles - 1: time.sleep(FETCH_INTERVAL_SECONDS) -- 114-117
Sleep ==
    /\ pc = "returned"
    /\ UNCHANGED <<lvars, response>>
    /\ cycle < NumCycles
    /\ sleeps' = sleeps + 1
    /\ pc' = "loop"
    /\ UNCHANGED <<cycle, conn, open, run_id, rowcount, error, db, tx,
                   fetched, store0, updates, exit, batch, log0, cause>>

\* The last cycle is not followed by a sleep; "ETL session complete."
Complete ==
    /\ pc = "returned"
    /\ UNCHANGED <<lvars, response>>
    /\ cycle = NumCycles
    /\ pc' = "complete"
    /\ UNCHANGED <<cycle, conn, open, run_id, rowcount, error, db, tx,
                   sleeps, fetched, store0, updates, exit, batch, log0,
                   cause>>

Next ==
    \/ StartCycle
    \/ Connect
    \/ BeginRun
    \/ FetchFails
    \/ ParseFails
    \/ FetchEmpty
    \/ FetchAndLoad
    \/ CommitLoad
    \/ EndRunLoaded
    \/ EndRunEmpty
    \/ EndRunNoValid
    \/ Except
    \/ Finally
    \/ Sleep
    \/ Complete

Spec == Init /\ [][Next]_vars

\* The driver under the scheduling of a single thread: a step that can be
\* taken is taken.
FairSpec == Spec /\ WF_vars(Next)

\* ------------------------------------------- the load step on its own
\* Rows a store may hold before the load: rows of an earlier fetch.
EarlierRows ==
    { Record(state, 0) :
        state \in { x \in RawStates : x.n >= MinFields /\ ~StripRaises(x) } }

StartingStores == { st \in SUBSET EarlierRows : \A r, q \in st : SameKey(r, q) => r = q }

\* The batches normalization can produce.
Batches ==
    { Normalize(states, 1) :
        states \in { x \in SeqsUpTo(RawStates, MaxStates) : ~NormalizeRaises(x) } }

\* Any starting store and any batch, on an open connection.
LoadInit ==
    /\ cycle = 1
    /\ pc = "load"
    /\ conn = TRUE
    /\ open = 1
    /\ run_id = 0
    /\ rowcount = 0
    /\ error = None
    /\ \E st \in StartingStores :
          /\ db = [store |-> st, log |-> {}, seq |-> 0]
          /\ tx = db
          /\ store0 = st
    /\ sleeps = 0
    /\ fetched = "ok"
    /\ updates = 0
    /\ exit = "none"
    /\ load_batch \in Batches
    /\ batch = Len(load_batch)
    /\ log0 = {}
    /\ cause = <<"none", "">>
    /\ once = {}
    /\ response = <<>>

\* cursor.executemany(insert_query, records_to_insert); conn.commit();
\* records_inserted = cursor.rowcount -- lines 81-84, from position `at`.
Load(at, to) ==
    /\ pc = at
    /\ LET e == ExecuteMany(tx.store, load_batch)
           c == Commit([tx EXCEPT !.store = e.store], db, "ok")
       IN  /\ tx' = c.tx
           /\ db' = c.db
           /\ rowcount' = e.rowcount
           /\ once' = IF at = "load" THEN e.store ELSE once
    /\ pc' = to
    /\ UNCHANGED <<cycle, conn, open, run_id, error, sleeps, fetched, store0,
                   updates, exit, batch, log0, cause, load_batch,
                   response>>

LoadOnce == Load("load", "reload")

LoadAgain == Load("reload", "reloaded")

LoadNext == LoadOnce \/ LoadAgain

LoadSpec == LoadInit /\ [][LoadNext]_vars

\* ============================================================== claims
Terminal == {"Success", "Failure"}

\* The rows of a run-log image that belong to run `rid`.
RowsOf(log, rid) == { r \in log : r.run_id = rid }

KeyUnique(store) == \A r, s \in store : SameKey(r, s) => r = s

\* The call of fetch_and_append_data has ended (returned or raised).
CallEnded == pc \in {"returned", "crashed"}

\* C1: the observation store, committed or seen through the open
\* connection, never holds two rows with the same (icao24, last_contact).
C1_NaturalKeyUnique == KeyUnique(db.store) /\ KeyUnique(tx.store)

\* C1 witness: a response carried the same key twice; executemany went
\* through both records and one row was added.
C1_Witness ==
    /\ pc = "commit"
    /\ batch = 2
    /\ rowcount = 1
    /\ Cardinality(tx.store) = Cardinality(store0) + 1

\* C2: the Success row of a cycle carries as records_processed the number
\* of observation rows that cycle added, and the rows it added have
\* pairwise different keys.
C2_ReportedCountIsInserted ==
    /\ \A r \in RowsOf(tx.log, run_id) :
          r.status = "Success" =>
            r.records_processed = Some(Cardinality(tx.store \ store0))
    /\ \A r \in RowsOf(db.log, run_id) :
          r.status = "Success" =>
            r.records_processed = Some(Cardinality(db.store \ store0))
    /\ KeyUnique(tx.store \ store0)

\* C2 witness: a committed Success row reporting fewer rows than the batch
\* held, in a cycle that found rows already stored.
C2_Witness ==
    /\ pc = "finally"
    /\ exit = "normal"
    /\ store0 # {}
    /\ batch = 2
    /\ \E r \in RowsOf(db.log, run_id) :
          r.status = "Success" /\ r.records_processed = Some(1)

\* C3: when a call of fetch_and_append_data that created its run-log row
\* ends, that row is committed, is the only row of its run_id, is new, is
\* Success or Failure and was changed exactly once; no committed row is
\* Running and the rows of earlier cycles are still there.
C3_OneTerminalRowPerCycle ==
    (CallEnded /\ run_id # 0) =>
      /\ Cardinality(RowsOf(db.log, run_id)) = 1
      /\ RowsOf(log0, run_id) = {}
      /\ \A r \in db.log : r.status \in Terminal
      /\ updates = 1
      /\ \A r \in log0 : RowsOf(db.log, r.run_id) # {}

\* C4: while the connection is open, the status of a run-log row changes
\* only from Running to Success or from Running to Failure.
C4_StatusOnlyLeavesRunning ==
    [][ pc # "finally" =>
          \A r \in tx.log : \A q \in RowsOf(tx.log', r.run_id) :
             q.status # r.status =>
               r.status = "Running" /\ q.status \in Terminal ]_vars

\* C5: a cycle whose HTTP request failed ends with its own run-log row
\* committed as Failure with an error message, every other run-log row as
\* it was, and the observation store as it was.
C5_FetchFailureRecorded ==
    (CallEnded /\ fetched = "failed") =>
      /\ \E r \in RowsOf(db.log, run_id) :
            r.status = "Failure" /\ r.error_message # None
      /\ db.log \ RowsOf(db.log, run_id) = log0
      /\ db.store = store0

\* C6: an exception raised by the fetch, the parsing, the normalization,
\* the bulk insert or its commit does not leave fetch_and_append_data: the
\* call returns, and the cycle's row is committed as Failure with that
\* exception's message.
C6_CycleIsolated ==
    (CallEnded /\ cause[1] \in {"fetch", "parse", "normalize", "executemany",
                                 "commit"}) =>
      /\ pc = "returned"
      /\ \E r \in RowsOf(db.log, run_id) :
            r.status = "Failure" /\ r.error_message = Some(cause[2])

\* C7: no failure of a run-log write makes an exception leave
\* fetch_and_append_data and stop the driver.
C7_AuditWriteNeverCrashes == pc # "crashed" /\ exit # "raise"

\* C8: at most one connection is open at any time, and none is open
\* outside a call of fetch_and_append_data.
C8_ConnectionReleased ==
    /\ open <= 1
    /\ pc \in {"loop", "connect", "returned", "crashed", "complete"}
          => open = 0

\* C8 witness: the call that left through the zero-record `return` has
\* ended and its connection is closed.
C8_Witness ==
    /\ pc = "returned"
    /\ exit = "return"
    /\ conn
    /\ open = 0

\* C9: a cycle whose response had no states ends with its run-log row
\* committed as Success, records_processed 0, no error message, and the
\* observation store as it was.
C9_EmptyResponseIsSuccess ==
    (CallEnded /\ fetched = "empty") =>
      /\ \E r \in RowsOf(db.log, run_id) :
            /\ r.status = "Success"
            /\ r.records_processed = Some(0)
            /\ r.error_message = None
      /\ db.store = store0

\* C10: a committed observation row stays in the store with all its
\* fields, fetch_time included, through every later step.
C10_StoredRowsKept == [][ db.store \subseteq db.store' ]_vars

\* C10 witness: the second cycle committed a load made only of keys that
\* were already stored, and the store is what it was.
C10_Witness ==
    /\ cycle = 2
    /\ pc = "endrun"
    /\ batch > 0
    /\ rowcount = 0
    /\ store0 # {}
    /\ db.store = store0

\* C11: loading a batch a second time leaves the observation rows, and so
\* their number, as the first load left them, and reports 0 inserted rows.
C11_LoadIdempotent ==
    pc = "reloaded" =>
      /\ tx.store = once
      /\ db.store = once
      /\ Cardinality(tx.store) = Cardinality(once)
      /\ rowcount = 0

\* C11 witness: the batch was loaded twice, the first load added a row to
\* a store that already held one and skipped another record.
C11_Witness ==
    /\ pc = "reloaded"
    /\ store0 # {}
    /\ Cardinality(once) > Cardinality(store0)
    /\ Cardinality(once) < Cardinality(store0) + batch

\* C12: an end_run on a run whose row is not Running (no row of that
\* run_id, or a row already Success or Failure) leaves every run-log row
\* as it was.
C12_EndRunOnClosedRunIsNoOp ==
    [][ ( /\ pc \in {"endrun", "empty", "novalid", "except"}
          /\ conn
          /\ run_id # 0
          /\ \A r \in RowsOf(tx.log, run_id) : r.status # "Running" )
        => tx.log' = tx.log ]_vars

\* A run-log row has the columns its status calls for.
WellFormed(r) ==
    /\ r.status \in {"Running", "Success", "Failure"}
    /\ r.status = "Running" =>
          r.end_time = None /\ r.records_processed = None
            /\ r.error_message = None
    /\ r.status = "Success" => r.end_time # None /\ r.error_message = None
    /\ r.status = "Failure" => r.end_time # None /\ r.error_message # None

\* C13: every run-log row, committed or in the open transaction, is well
\* formed for its status; error_message is present only on Failure rows.
C13_RowsWellFormed ==
    \A r \in db.log \cup tx.log :
       /\ WellFormed(r)
       /\ r.error_message # None => r.status = "Failure"

\* C13 witness: the committed row of a closed run next to the Running row
\* of the cycle under way.
C13_Witness ==
    /\ pc = "fetch"
    /\ \E r \in db.log : r.status \in Terminal
    /\ \E r \in tx.log : r.status = "Running"

IsLong(state) == state.n >= MinFields

\* The tuples of a response that have at least MinFields fields.
LongStates(states) == SelectSeq(states, IsLong)

\* The records built from the long tuples of this cycle's response.
BuiltFromLong ==
    { Record(LongStates(response)[j], Now) :
        j \in 1..Len(LongStates(response)) }

\* The part of C14 about the batch: a short tuple never makes the
\* normalization raise, the batch has one record per long tuple, and the
\* rows the bulk insert adds are records built from long tuples.
ShortTuplesDropped ==
    /\ cause[1] = "normalize" =>
          \E j \in 1..Len(response) :
             IsLong(response[j]) /\ response[j].callsign.kind = "num"
    /\ pc \in {"commit", "novalid"} =>
          batch = Len(LongStates(response))
    /\ pc = "commit" =>
          /\ tx.store \ store0 \subseteq BuiltFromLong
          /\ \A r \in BuiltFromLong : \E q \in tx.store : SameKey(r, q)
    /\ pc = "novalid" => tx.store = store0

\* C14: tuples with fewer than 17 fields are left out of the batch without
\* raising, the rows inserted are built from the tuples with at least 17
\* fields, and a cycle whose response holds only short tuples ends with
\* its row committed as Success, records_processed 0, and no row stored.
C14_ShortTuplesNeverFailCycle ==
    /\ ShortTuplesDropped
    /\ (CallEnded /\ response # <<>> /\ LongStates(response) = <<>>) =>
          /\ \E r \in RowsOf(db.log, run_id) :
                r.status = "Success" /\ r.records_processed = Some(0)
          /\ db.store = store0

\* C15: when begin_run and the end_run(run_id, 'Success', n) after it have
\* both returned, the committed run-log has exactly one row more than
\* before; that row has the run_id begin_run returned, status Success, an
\* end_time, records_processed = n and no error message.
C15_BeginThenEndRun ==
    (pc = "finally" /\ cause[1] = "none") =>
      /\ log0 \subseteq db.log
      /\ Cardinality(db.log \ log0) = 1
      /\ \A r \in db.log \ log0 :
            /\ r.run_id = run_id
            /\ r.status = "Success"
            /\ r.end_time # None
            /\ r.records_processed = Some(rowcount)
            /\ r.error_message = None

\* C15 witness: the second cycle closed its run with n = 2 next to the row
\* of the first cycle.
C15_Witness ==
    /\ pc = "finally"
    /\ cause[1] = "none"
    /\ log0 # {}
    /\ rowcount = 2
    /\ \E r \in db.log \ log0 : r.records_processed = Some(2)

\* C16: no observation row, committed or in the open transaction, has the
\* empty string as its callsign.
C16_NoEmptyCallsign ==
    \A r \in db.store \cup tx.store : r.callsign # Some(<<>>)

\* C17: a cycle starts only when no connection is open and after one sleep
\* per earlier cycle, and the driver gets to "ETL session complete" having
\* started NumCycles cycles and slept between each two of them.
C17_DriverRunsAllCycles ==
    /\ [](pc = "connect" => open = 0 /\ sleeps = cycle - 1)
    /\ <>(pc = "complete" /\ cycle = NumCycles /\ sleeps = NumCycles - 1)

\* C18: when a call has ended, a cycle whose committed row is Failure has
\* added no observation row, and a cycle that added observation rows has
\* its row committed as Success.
C18_FailureAddsNoRows ==
    CallEnded =>
      /\ \A r \in RowsOf(db.log, run_id) :
            r.status = "Failure" => db.store = store0
      /\ db.store # store0 =>
            \E r \in RowsOf(db.log, run_id) : r.status = "Success"

\* C19: begin_run commits nothing: until the fetch is over the committed
\* run-log is what it was when the cycle began, and the committed run-log
\* changes only at the commit of the load or of an end_run.
C19_BeginRunNotCommitted ==
    /\ [](pc \in {"connect", "begin", "fetch"} => db.log = log0)
    /\ [][ db.log' # db.log =>
             pc \in {"commit", "endrun", "empty", "novalid", "except"} ]_vars

\* C19 witness: begin_run returned a run_id, every later write failed, the
\* call has ended and the committed run-log has no row of the cycle.
C19_Witness ==
    /\ CallEnded
    /\ run_id # 0
    /\ updates = 0
    /\ db.log = log0

\* C20: the run-log rows committed before a cycle began stay as they were,
\* in the committed image and in the open transaction, and the run_id of
\* the cycle is the run_id of none of them.
C20_OnlyOwnRowWritten ==
    /\ log0 \subseteq db.log
    /\ log0 \subseteq tx.log
    /\ run_id # 0 => RowsOf(log0, run_id) = {}

\* C20 witness: the second cycle has closed its own row next to the row of
\* the first.
C20_Witness ==
    /\ cycle = 2
    /\ CallEnded
    /\ log0 # {}
    /\ \E r \in RowsOf(db.log, run_id) : r.status \in Terminal

====
